---- MODULE Spec2Model ----
(***************************************************************************)
(* Video ingestion of rahulkr3024/website: the POST /analyze handler of    *)
(* the video router (src/unnamed/part_001) driving VideoService            *)
(* (src/unnamed/part_004).  One request is followed from its arrival to    *)
(* its HTTP response; every await of the handler is a step boundary, and   *)
(* the scratch directory is the set fs of the paths that exist in it.      *)
(* Further specifications over the same initial state follow concurrent    *)
(* runs (RunsSpec), one analyzeFrames call (FramesSpec), ChatbotService    *)
(* (ChatSpec), the document upload handlers (DocsSpec) and the download    *)
(* history of DownloadService (HistorySpec).                               *)
(***************************************************************************)
EXTENDS Integers, Sequences, FiniteSets, TLC

VARIABLES
    pc,             \* position of the /analyze handler
    env,            \* what the outside world does to this request
    fs,             \* paths that exist in tempDir
    unlinkCalls,    \* paths fs.unlink has been called on
    unlinkErr,      \* paths whose unlink failed although the file existed
    pendingUnlink,  \* cleanupFile calls nobody awaits, still in flight
    call,           \* per VideoService method: notCalled/running/returned/threw
    written,        \* frame images ffmpeg has written so far
    frames,         \* extractFrames' frames array
    idx,            \* loop position in analyzeFrames / the cleanup loop
    analyses,       \* analyzeFrames' analyses array
    attempts,       \* per frame index: analysis attempts made
    transcript,     \* result of transcribeAudio
    visualAnalysis, \* result of analyzeVisuals
    combined,       \* combinedContent of the handler
    response,       \* what res.json / res.status(500).json sent
    run,            \* per concurrent run: its URL, position, IDs and temp paths
    uuids,          \* how many identifiers uuidv4() has handed out
    analyzeCall,    \* one direct call of analyzeFrames(framePaths), await by await
    sessions,       \* ChatbotService.sessions: session ID -> session record
    chatHistory,    \* ChatbotService.chatHistory: session ID -> roles of its messages
    usedIds,        \* session IDs uuidv4() has handed out to startSession
    pendingChat,    \* chat calls that await their OpenAI completion
    now,            \* wall clock of the chat service
    doc,            \* the document upload request being handled
    uploadsDir,     \* files that exist in uploads/
    docCleanup,     \* deletions of the uploaded file that are scheduled or in flight
    downloadHistory,\* DownloadService.downloadHistory
    added,          \* how many entries addToHistory has been given
    lastQuery       \* the last getDownloadHistory call and what it returned

vars == <<pc, env, fs, unlinkCalls, unlinkErr, pendingUnlink, call, written,
          frames, idx, analyses, attempts, transcript, visualAnalysis,
          combined, response, run, uuids, analyzeCall,
          sessions, chatHistory, usedIds, pendingChat, now,
          doc, uploadsDir, docCleanup, downloadHistory, added, lastQuery>>

\* the state of the single request followed step by step
pvars == <<pc, env, fs, unlinkCalls, unlinkErr, pendingUnlink, call, written,
           frames, idx, analyses, attempts, transcript, visualAnalysis,
           combined, response>>

\* the state of the concurrent runs, followed path by path
rvars == <<run, uuids>>

\* the state of one analyzeFrames call followed await by await
avars == <<analyzeCall>>

\* the state of ChatbotService
cvars == <<sessions, chatHistory, usedIds, pendingChat, now>>

\* the state of the document upload router
dvars == <<doc, uploadsDir, docCleanup>>

\* the state of DownloadService's history
hvars == <<downloadHistory, added, lastQuery>>

\* the state of the services that the video pipeline does not touch
svars == <<avars, cvars, dvars, hvars>>

\* everything but the state of the analyzeFrames call
restOfFrames == <<pvars, rvars, cvars, dvars, hvars>>

\* everything but the state of ChatbotService
restOfChat == <<pvars, rvars, avars, dvars, hvars>>

\* everything but the state of the document upload router
restOfDocs == <<pvars, rvars, avars, cvars, hvars>>

\* everything but the state of DownloadService's history
restOfHistory == <<pvars, rvars, avars, cvars, dvars>>

----------------------------------------------------------------------------
(* Bounds *)

\* extractFrames(videoUrl, frameCount = 10): the model samples fewer frames
frameCount == 3

\* the longest chat history followed, the system message included
MaxHistory == 4

\* the last instant of the chat service's clock; one unit is twelve hours
MaxClock == 3

\* if (this.downloadHistory.length > 100): the model keeps fewer entries
historyCap == 3

\* how many addToHistory calls are followed
MaxAdds == 5

----------------------------------------------------------------------------
(* Values *)

None == [kind |-> "none"]

Platforms == {"youtube", "instagram", "other"}

Methods == {"extractAudio", "transcribeAudio", "analyzeVisuals",
            "extractFrames", "analyzeFrames"}

\* path.join(this.tempDir, `${videoId}-${uuidv4()}.wav`)
AudioPath == <<"wav", 0>>

\* path.join(this.tempDir, `${videoId}-temp.mp4`)
VideoPath == <<"mp4", 0>>

\* path.join(this.tempDir, `${videoId}-frame-${i}.png`)
FramePath(i) == <<"png", i>>

FrameIndex(p) == p[2]

\* deadline: whether the caller's deadline for the request (the client gives up
\* after its own timeout) has already passed when the request arrives
Envs ==
    [platform   : Platforms,
     audioFault : {"none", "stream", "transcoder"},
     sttFault   : {"none", "read", "service"},
     videoFault : {"none", "download", "decode"},
     frameFails : SUBSET (1..frameCount),
     genFails   : BOOLEAN,
     deadline   : {"open", "expired"}]

\* req.body.format after validation (schemas.videoURL)
Formats == {"presentation", "keypoints", "descriptive", "mindmap", "shortnotes"}

\* What the speech-to-text service may answer
WhisperResponses ==
    { [text |-> "", hasSegments |-> FALSE, segments |-> <<>>],
      [text |-> "", hasSegments |-> TRUE, segments |-> <<>>],
      [text |-> "a", hasSegments |-> TRUE,
       segments |-> << [start |-> 0, end |-> 2] >>],
      [text |-> "a b", hasSegments |-> TRUE,
       segments |-> << [start |-> 0, end |-> 2], [start |-> 2, end |-> 5] >>] }

\* What the vision service may answer: a description is the sequence of its words
Descriptions == { <<"plain">>, <<"KEY", "Chart", "title", "flowchart", "\"Q1\"">> }

----------------------------------------------------------------------------
(* Pure helpers of VideoService *)

isYouTubeUrl(e) == e.platform = "youtube"

isInstagramUrl(e) == e.platform = "instagram"

\* calculateDuration reading segments[0] instead of the last segment
calculateDurationOfFirst(resp) ==
    IF ~resp.hasSegments \/ Len(resp.segments) = 0
    THEN 0
    ELSE resp.segments[1].end

\* calculateDuration(response.segments); hasSegments = FALSE is undefined
calculateDuration(resp) ==
    IF ~resp.hasSegments \/ Len(resp.segments) = 0
    THEN 0
    ELSE resp.segments[Len(resp.segments)].end

ToLower(w) ==
    CASE w = "Chart" -> "chart"
      [] w = "KEY"   -> "key"
      [] OTHER       -> w

\* text.includes(k) for a lower-cased description
Includes(desc, k) ==
    \E i \in 1..Len(desc) :
        LET w == ToLower(desc[i])
        IN  \/ w = k
            \/ (k = "chart" /\ w = "flowchart")

\* the tags one analysis pushes, in the order of the three ifs
TagsOf(desc) ==
    (IF Includes(desc, "chart") \/ Includes(desc, "graph")
     THEN <<"Charts/Graphs detected">> ELSE <<>>)
    \o (IF Includes(desc, "text") \/ Includes(desc, "title")
        THEN <<"Important text elements">> ELSE <<>>)
    \o (IF Includes(desc, "diagram") \/ Includes(desc, "flowchart")
        THEN <<"Diagrams/Flowcharts">> ELSE <<>>)

RECURSIVE PushedTags(_)
PushedTags(notes) ==
    IF notes = <<>> THEN <<>>
    ELSE TagsOf(Head(notes).analysis) \o PushedTags(Tail(notes))

\* [...new Set(elements)]: first occurrences, in insertion order
RECURSIVE Distinct(_)
Distinct(s) ==
    IF s = <<>> THEN <<>>
    ELSE LET init == Distinct(SubSeq(s, 1, Len(s) - 1))
             last == s[Len(s)]
         IN  IF \E i \in 1..Len(init) : init[i] = last
             THEN init ELSE Append(init, last)

extractKeyVisualElements(notes) == Distinct(PushedTags(notes))

\* analysis.match(/"([^"]+)"/g) with the quotes stripped
QuotedIn(desc) ==
    LET q == SelectSeq(desc, LAMBDA w : w = "\"Q1\"")
    IN  [i \in 1..Len(q) |-> "Q1"]

RECURSIVE extractTextFromAnalyses(_)
extractTextFromAnalyses(notes) ==
    IF notes = <<>> THEN <<>>
    ELSE QuotedIn(Head(notes).analysis) \o extractTextFromAnalyses(Tail(notes))

\* .filter(...).map(analysis => ({description, timestamp})), timestamps left out
identifyImportantVisuals(notes) ==
    LET kept == SelectSeq(notes, LAMBDA n :
                    \E k \in {"important", "key", "significant"} :
                        Includes(n.analysis, k))
    IN  [i \in 1..Len(kept) |-> [description |-> kept[i].analysis]]

----------------------------------------------------------------------------
(* URLs and extractVideoId.  A string is the sequence of its characters. *)

Letters ==
    {
      "a", "b", "c", "d", "e", "f", "g", "h", "i", "j", "k", "l", "m",
      "n", "o", "p", "q", "r", "s", "t", "u", "v", "w", "x", "y", "z",
      "A", "B", "C", "D", "E", "F", "G", "H", "I", "J", "K", "L", "M",
      "N", "O", "P", "Q", "R", "S", "T", "U", "V", "W", "X", "Y", "Z" }

Digits == {"0", "1", "2", "3", "4", "5", "6", "7", "8", "9"}

\* \w
WordChars == Letters \cup Digits \cup {"_"}

\* [A-Za-z0-9_-]
TokenChars == WordChars \cup {"-"}

\* The URLs a request may carry, each with the media token it carries by
\* construction (<<>> when it carries none)
Urls ==
    {
      \* https://www.youtube.com/watch?v=dQw4w9WgXcQ  (watch?v=<id>)
      [s |-> <<"h", "t", "t", "p", "s", ":", "/", "/", "w", "w", "w", ".", "y", "o", "u", "t", "u", "b", "e", ".", "c", "o", "m", "/", "w", "a", "t", "c", "h", "?", "v", "=", "d", "Q", "w", "4", "w", "9", "W", "g", "X", "c", "Q">>,
       carries |-> <<"d", "Q", "w", "4", "w", "9", "W", "g", "X", "c", "Q">>],
      \* https://youtu.be/dQw4w9WgXcQ  (youtu.be/<id>)
      [s |-> <<"h", "t", "t", "p", "s", ":", "/", "/", "y", "o", "u", "t", "u", ".", "b", "e", "/", "d", "Q", "w", "4", "w", "9", "W", "g", "X", "c", "Q">>,
       carries |-> <<"d", "Q", "w", "4", "w", "9", "W", "g", "X", "c", "Q">>],
      \* https://www.youtube.com/embed/dQw4w9WgXcQ  (embed/<id>)
      [s |-> <<"h", "t", "t", "p", "s", ":", "/", "/", "w", "w", "w", ".", "y", "o", "u", "t", "u", "b", "e", ".", "c", "o", "m", "/", "e", "m", "b", "e", "d", "/", "d", "Q", "w", "4", "w", "9", "W", "g", "X", "c", "Q">>,
       carries |-> <<"d", "Q", "w", "4", "w", "9", "W", "g", "X", "c", "Q">>],
      \* https://www.youtube.com/v/dQw4w9WgXcQ  (v/<id>)
      [s |-> <<"h", "t", "t", "p", "s", ":", "/", "/", "w", "w", "w", ".", "y", "o", "u", "t", "u", "b", "e", ".", "c", "o", "m", "/", "v", "/", "d", "Q", "w", "4", "w", "9", "W", "g", "X", "c", "Q">>,
       carries |-> <<"d", "Q", "w", "4", "w", "9", "W", "g", "X", "c", "Q">>],
      \* https://www.youtube.com/watch?t=9&v=dQw4w9WgXcQ  (&v=<id>)
      [s |-> <<"h", "t", "t", "p", "s", ":", "/", "/", "w", "w", "w", ".", "y", "o", "u", "t", "u", "b", "e", ".", "c", "o", "m", "/", "w", "a", "t", "c", "h", "?", "t", "=", "9", "&", "v", "=", "d", "Q", "w", "4", "w", "9", "W", "g", "X", "c", "Q">>,
       carries |-> <<"d", "Q", "w", "4", "w", "9", "W", "g", "X", "c", "Q">>],
      \* https://www.youtube.com/  (YouTube, no token)
      [s |-> <<"h", "t", "t", "p", "s", ":", "/", "/", "w", "w", "w", ".", "y", "o", "u", "t", "u", "b", "e", ".", "c", "o", "m", "/">>,
       carries |-> <<>>],
      \* https://www.instagram.com/p/Cx_9-aB/  (Instagram /p/<token>)
      [s |-> <<"h", "t", "t", "p", "s", ":", "/", "/", "w", "w", "w", ".", "i", "n", "s", "t", "a", "g", "r", "a", "m", ".", "c", "o", "m", "/", "p", "/", "C", "x", "_", "9", "-", "a", "B", "/">>,
       carries |-> <<"C", "x", "_", "9", "-", "a", "B">>],
      \* https://www.instagram.com/reel/Cx9/  (Instagram, no /p/ segment)
      [s |-> <<"h", "t", "t", "p", "s", ":", "/", "/", "w", "w", "w", ".", "i", "n", "s", "t", "a", "g", "r", "a", "m", ".", "c", "o", "m", "/", "r", "e", "e", "l", "/", "C", "x", "9", "/">>,
       carries |-> <<>>],
      \* https://vimeo.com/76979871  (no known platform)
      [s |-> <<"h", "t", "t", "p", "s", ":", "/", "/", "v", "i", "m", "e", "o", ".", "c", "o", "m", "/", "7", "6", "9", "7", "9", "8", "7", "1">>,
       carries |-> <<>>]
    }

\* one atom of a regular-expression literal against one character:
\* "<any>" is an unescaped dot, "<w>" is \w, anything else is itself
AtomMatches(a, c) ==
    CASE a = "<any>" -> TRUE
      [] a = "<w>"   -> c \in WordChars
      [] OTHER       -> a = c

\* the atoms of pat match s from position i on
MatchesAt(s, i, pat) ==
    /\ i >= 1
    /\ i + Len(pat) - 1 <= Len(s)
    /\ \A k \in 1..Len(pat) : AtomMatches(pat[k], s[i + k - 1])

\* /^(https?:\/\/)?(www\.)?(youtube\.com|youtu\.be)\//
youtubeRegex ==
    { scheme \o www \o host \o <<"/">> :
        scheme \in { <<>>, <<"h","t","t","p",":","/","/">>,
                     <<"h","t","t","p","s",":","/","/">> },
        www \in { <<>>, <<"w","w","w",".">> },
        host \in { <<"y","o","u","t","u","b","e",".","c","o","m">>,
                   <<"y","o","u","t","u",".","b","e">> } }

\* /^(https?:\/\/)?(www\.)?instagram\.com\//
instagramRegex ==
    { scheme \o www \o <<"i","n","s","t","a","g","r","a","m",".","c","o","m","/">> :
        scheme \in { <<>>, <<"h","t","t","p",":","/","/">>,
                     <<"h","t","t","p","s",":","/","/">> },
        www \in { <<>>, <<"w","w","w",".">> } }

\* youtubeRegex.test(url)
TestYouTube(s) == \E p \in youtubeRegex : MatchesAt(s, 1, p)

\* instagramRegex.test(url)
TestInstagram(s) == \E p \in instagramRegex : MatchesAt(s, 1, p)

\* the platform the two tests classify a URL as
PlatformOf(s) ==
    IF TestYouTube(s) THEN "youtube"
    ELSE IF TestInstagram(s) THEN "instagram"
    ELSE "other"

\* (youtu.be\/|v\/|u\/\w\/|embed\/|watch\?v=|&v=), in the order tried
Alternatives ==
    << <<"y","o","u","t","u","<any>","b","e","/">>,
       <<"v","/">>,
       <<"u","/","<w>","/">>,
       <<"e","m","b","e","d","/">>,
       <<"w","a","t","c","h","?","v","=">>,
       <<"&","v","=">> >>

\* [^#&?]
IsIdChar(c) == c \notin {"#", "&", "?"}

NoMatch == [found |-> FALSE, group |-> <<>>]

\* videoUrl.match(/^.(youtu.be\/|v\/|u\/\w\/|embed\/|watch\?v=|&v=)([^#&?]).*/):
\* one character, then an alternative, then ONE captured character
regExpMatch(s) ==
    LET Fits(k) == /\ MatchesAt(s, 2, Alternatives[k])
                   /\ 2 + Len(Alternatives[k]) <= Len(s)
                   /\ IsIdChar(s[2 + Len(Alternatives[k])])
        ks == { k \in 1..Len(Alternatives) : Fits(k) }
    IN  IF Len(s) < 1 \/ ks = {} THEN NoMatch
        ELSE LET k == CHOOSE x \in ks : \A y \in ks : x <= y
             IN  [found |-> TRUE, group |-> << s[2 + Len(Alternatives[k])] >>]

\* the longest run of characters of class C that starts at position i
RECURSIVE RunFrom(_, _, _)
RunFrom(s, i, C) ==
    IF i > Len(s) \/ s[i] \notin C THEN <<>>
    ELSE <<s[i]>> \o RunFrom(s, i + 1, C)

\* videoUrl.match(/\/p\/([A-Za-z0-9_-]+)/): leftmost "/p/" followed by a token
instagramMatch(s) ==
    LET is == { i \in 1..Len(s) : /\ MatchesAt(s, i, <<"/", "p", "/">>)
                                  /\ i + 3 <= Len(s)
                                  /\ s[i + 3] \in TokenChars }
    IN  IF is = {} THEN NoMatch
        ELSE LET i == CHOOSE x \in is : \A y \in is : x <= y
             IN  [found |-> TRUE, group |-> RunFrom(s, i + 3, TokenChars)]

NoId == [kind |-> "none", n |-> 0, chars |-> <<>>]

\* an ID parsed from the URL
TokenId(cs) == [kind |-> "token", n |-> 0, chars |-> cs]

\* uuidv4(): the n-th identifier the generator hands out
UuidId(n) == [kind |-> "uuid", n |-> n, chars |-> <<>>]

\* a TypeError thrown instead of an ID
Raised == [kind |-> "raised", n |-> 0, chars |-> <<>>]

\* the well-known pattern with its stars, /^.*(...)([^#&?]*).*/: the rightmost
\* alternative and the whole run after it
extractVideoIdStarred(s, fresh) ==
    IF TestYouTube(s)
    THEN LET is == { i \in 1..Len(s) :
                        \E k \in 1..Len(Alternatives) : MatchesAt(s, i, Alternatives[k]) }
         IN  IF is = {} THEN UuidId(fresh)
             ELSE LET i == CHOOSE x \in is : \A y \in is : x >= y
                      k == CHOOSE x \in 1..Len(Alternatives) :
                             /\ MatchesAt(s, i, Alternatives[x])
                             /\ \A y \in 1..(x - 1) : ~MatchesAt(s, i, Alternatives[y])
                      g == RunFrom(s, i + Len(Alternatives[k]),
                                   { s[j] : j \in 1..Len(s) } \ {"#", "&", "?"})
                  IN  IF Len(g) = 11 THEN TokenId(g) ELSE UuidId(fresh)
    ELSE IF TestInstagram(s)
    THEN LET m == instagramMatch(s)
         IN  IF m.found THEN TokenId(m.group) ELSE UuidId(fresh)
    ELSE UuidId(fresh)

\* match[2].length read without the `match &&` guard
extractVideoIdNoNullCheck(s, fresh) ==
    IF TestYouTube(s)
    THEN LET m == regExpMatch(s)
         IN  IF ~m.found THEN Raised
             ELSE IF Len(m.group) = 11 THEN TokenId(m.group) ELSE UuidId(fresh)
    ELSE IF TestInstagram(s)
    THEN LET m == instagramMatch(s)
         IN  IF m.found THEN TokenId(m.group) ELSE UuidId(fresh)
    ELSE UuidId(fresh)

\* extractVideoId(videoUrl); fresh is the identifier uuidv4() returns if called
extractVideoId(s, fresh) ==
    IF TestYouTube(s)
    THEN LET m == regExpMatch(s)
         IN  IF m.found /\ Len(m.group) = 11 THEN TokenId(m.group) ELSE UuidId(fresh)
    ELSE IF TestInstagram(s)
    THEN LET m == instagramMatch(s)
         IN  IF m.found THEN TokenId(m.group) ELSE UuidId(fresh)
    ELSE UuidId(fresh)

----------------------------------------------------------------------------
(* The scratch directory *)

\* fs.unlink(filePath): ok says whether the operating system performs it
Unlink(files, p, ok) == IF ok THEN files \ {p} ELSE files

\* await this.cleanupFile(filePath): the unlink, its error caught and logged
cleanupFile(p, ok) ==
    /\ fs' = Unlink(fs, p, ok)
    /\ unlinkCalls' = unlinkCalls \cup {p}
    /\ unlinkErr' = IF p \in fs /\ ~ok THEN unlinkErr \cup {p} ELSE unlinkErr

\* this.cleanupFile(filePath) without await: unlink is issued, nobody waits
cleanupFileDetached(p) ==
    /\ unlinkCalls' = unlinkCalls \cup {p}
    /\ pendingUnlink' = pendingUnlink \cup {p}
    /\ UNCHANGED <<fs, unlinkErr>>

\* a detached unlink completes
UnlinkDone ==
    \E p \in pendingUnlink : \E ok \in BOOLEAN :
        /\ UNCHANGED <<rvars, svars>>
        /\ fs' = Unlink(fs, p, ok)
        /\ unlinkErr' = IF p \in fs /\ ~ok THEN unlinkErr \cup {p} ELSE unlinkErr
        /\ pendingUnlink' = pendingUnlink \ {p}
        /\ UNCHANGED <<pc, env, unlinkCalls, call, written, frames, idx,
                       analyses, attempts, transcript, visualAnalysis,
                       combined, response>>

----------------------------------------------------------------------------
(* The handler's two exits *)

\* catch (error) { res.status(500).json({success: false, ..., message}) }
Error500(msg) ==
    [status |-> 500, success |-> FALSE, error |-> "Failed to analyze video",
     message |-> msg]

\* res.json({success: true, data: result, metadata: {..., duration}})
Success200(format, duration) ==
    [status |-> 200, success |-> TRUE, format |-> format, duration |-> duration]

----------------------------------------------------------------------------
(* Concurrent runs: which temp paths each run hands to ytdl, ffmpeg and fs *)

\* the pipeline runs that execute at the same time
Runs == {"a", "b"}

NoUrl == [s |-> <<>>, carries |-> <<>>]

\* path.join(this.tempDir, name): `${id}-${uuid}.wav` has n = the uuid,
\* `${id}-temp.mp4` has n = 0, `${id}-frame-${i}.png` has n = i
TempPath(id, ext, n) == [id |-> id, ext |-> ext, n |-> n]

NoPath == TempPath(NoId, "", 0)

IdleRun ==
    [pc |-> "idle", url |-> NoUrl, ids |-> <<>>, audioPath |-> NoPath,
     videoId |-> NoId, paths |-> {}]

----------------------------------------------------------------------------
(* One call of analyzeFrames(framePaths) *)

\* missing: the frames readFile fails on; visionFails: the frames whose vision
\* request is answered with an error; inFlight: vision requests not yet
\* answered; completed: frames whose loop iteration is over
IdleCall ==
    [pc |-> "idle", framePaths |-> <<>>, missing |-> {}, visionFails |-> {},
     i |-> 0, inFlight |-> {}, completed |-> {}, visionCalls |-> 0,
     analyses |-> <<>>, result |-> None]

----------------------------------------------------------------------------
(* ChatbotService: values *)

\* the session IDs uuidv4() can hand out
SessionIds == {"s1", "s2"}

\* sessionId = null, or an ID no session was started with
NoSession == "none"

\* const maxAge = 24 * 60 * 60 * 1000, in units of twelve hours
maxAge == 2

\* the session record startSession stores (title, content, startTime left out)
NewSession(t) == [lastActivity |-> t, messageCount |-> 0, isActive |-> TRUE]

\* a Map with one more entry, and a Map with some keys deleted
MapSet(map, k, v) == [x \in DOMAIN map \cup {k} |-> IF x = k THEN v ELSE map[x]]

MapDelete(map, ks) == [x \in DOMAIN map \ ks |-> map[x]]

\* what the calls in flight will still push to the history of session s
Reserved(s) ==
    (IF [op |-> "processMessage", sid |-> s] \in pendingChat THEN 1 ELSE 0)
    + (IF [op |-> "askQuestion", sid |-> s] \in pendingChat THEN 2 ELSE 0)

\* room left in the history of s for one more exchange
RoomFor(s) ==
    s \in DOMAIN chatHistory => Len(chatHistory[s]) + Reserved(s) + 2 <= MaxHistory

----------------------------------------------------------------------------
(* Document uploads: values *)

Routes == {"/analyze", "/metadata", "/extract-pages"}

\* path.extname(req.file.originalname).toLowerCase(); the upload filter looks
\* at the MIME type only, so any extension can arrive
Extensions == {".pdf", ".docx", ".epub", ".txt"}

\* the cases of switch (fileExtension)
SupportedExtensions == {".pdf", ".docx", ".epub"}

\* one upload request and what happens to it: hasFile is whether multer
\* stored a file, extractFails and genFails whether pdfService and the
\* generator throw
DocEnvs ==
    [route : Routes, ext : Extensions, hasFile : BOOLEAN,
     extractFails : BOOLEAN, genFails : BOOLEAN]

\* req.file.path
UploadPath == "uploads/file"

IdleDoc == [pc |-> "idle", env |-> None, status |-> 0, unlinkFailed |-> FALSE]

----------------------------------------------------------------------------
(* Download history: values *)

\* entry.type of the three addToHistory callers
DownloadTypes == {"pdf", "txt", "docx"}

\* type = null (no filter)
NoType == "null"

\* the limit values a caller passes: parseInt(req.query.limit) is not validated
Limits == (-1)..(historyCap + 1)

\* history.filter(entry => entry.type === type) under if (type)
FilterByType(h, type) ==
    IF type = NoType THEN h ELSE SelectSeq(h, LAMBDA entry : entry.type = type)

\* array.slice(0, end): a negative end counts from the end of the array
SliceTo(a, end) ==
    LET stop == IF end < 0 THEN Len(a) + end ELSE end
        n    == IF stop < 0 THEN 0 ELSE IF stop > Len(a) THEN Len(a) ELSE stop
    IN  SubSeq(a, 1, n)

----------------------------------------------------------------------------
(* State after construction *)

Init ==
    /\ pc = "idle"
    /\ env = None
    /\ fs = {}
    /\ unlinkCalls = {}
    /\ unlinkErr = {}
    /\ pendingUnlink = {}
    /\ call = [m \in Methods |-> "notCalled"]
    /\ written = 0
    /\ frames = <<>>
    /\ idx = 0
    /\ analyses = <<>>
    /\ attempts = [i \in 1..frameCount |-> 0]
    /\ transcript = None
    /\ visualAnalysis = None
    /\ combined = None
    /\ response = None
    /\ run = [r \in Runs |-> IdleRun]
    /\ uuids = 0
    /\ analyzeCall = IdleCall
    /\ sessions = <<>>
    /\ chatHistory = <<>>
    /\ usedIds = {}
    /\ pendingChat = {}
    /\ now = 0
    /\ doc = IdleDoc
    /\ uploadsDir = {}
    /\ docCleanup = {}
    /\ downloadHistory = <<>>
    /\ added = 0
    /\ lastQuery = None

----------------------------------------------------------------------------
(* Audio branch *)

\* extractAudio with the Instagram branch wired to the YouTube extractor
ReceiveInstagramDownloads ==
    /\ UNCHANGED <<rvars, svars>>
    /\ pc = "idle"
    /\ \E e \in Envs :
        /\ env' = e
        /\ IF isYouTubeUrl(e) \/ isInstagramUrl(e)
           THEN /\ pc' = "extractYouTubeAudio"
                /\ call' = [call EXCEPT !["extractAudio"] = "running"]
                /\ UNCHANGED response
           ELSE /\ pc' = "responded"
                /\ call' = [call EXCEPT !["extractAudio"] = "threw"]
                /\ response' = Error500("Failed to extract audio from video")
    /\ UNCHANGED <<fs, unlinkCalls, unlinkErr, pendingUnlink, written, frames,
                   idx, analyses, attempts, transcript, visualAnalysis, combined>>

\* POST /analyze arrives; extractAudio dispatches on the platform
Receive ==
    /\ UNCHANGED <<rvars, svars>>
    /\ pc = "idle"
    /\ \E e \in Envs :
        /\ env' = e
        /\ IF isYouTubeUrl(e)
           THEN /\ pc' = "extractYouTubeAudio"
                /\ call' = [call EXCEPT !["extractAudio"] = "running"]
                /\ UNCHANGED response
           ELSE \* Instagram placeholder or 'Unsupported video platform',
                \* both rethrown as 'Failed to extract audio from video'
                /\ pc' = "responded"
                /\ call' = [call EXCEPT !["extractAudio"] = "threw"]
                /\ response' = Error500("Failed to extract audio from video")
    /\ UNCHANGED <<fs, unlinkCalls, unlinkErr, pendingUnlink, written, frames,
                   idx, analyses, attempts, transcript, visualAnalysis, combined>>

\* ffmpeg(stream)...save(audioPath) has opened and begun writing its output
FfmpegWriteAudio ==
    /\ UNCHANGED <<rvars, svars>>
    /\ pc = "extractYouTubeAudio"
    /\ AudioPath \notin fs
    /\ fs' = fs \cup {AudioPath}
    /\ UNCHANGED <<pc, env, unlinkCalls, unlinkErr, pendingUnlink, call,
                   written, frames, idx, analyses, attempts, transcript,
                   visualAnalysis, combined, response>>

\* .on('end'): resolve(audioPath); the handler goes on to transcribeAudio
AudioEnd ==
    /\ UNCHANGED <<rvars, svars>>
    /\ pc = "extractYouTubeAudio"
    /\ env.audioFault = "none"
    /\ fs' = fs \cup {AudioPath}
    /\ pc' = "readAudio"
    /\ call' = [call EXCEPT !["extractAudio"] = "returned",
                            !["transcribeAudio"] = "running"]
    /\ UNCHANGED <<env, unlinkCalls, unlinkErr, pendingUnlink, written, frames,
                   idx, analyses, attempts, transcript, visualAnalysis,
                   combined, response>>

\* .on('error') with the handler swallowing the audio failure and going on to
\* analyzeVisuals with an empty transcript
AudioErrorContinues ==
    /\ UNCHANGED <<rvars, svars>>
    /\ pc = "extractYouTubeAudio"
    /\ env.audioFault # "none"
    /\ pc' = "downloading"
    /\ call' = [call EXCEPT !["extractAudio"] = "threw",
                            !["analyzeVisuals"] = "running",
                            !["extractFrames"] = "running"]
    /\ transcript' = [text |-> "", segments |-> <<>>, duration |-> 0,
                      language |-> "en"]
    /\ UNCHANGED <<env, fs, unlinkCalls, unlinkErr, pendingUnlink, written,
                   frames, idx, analyses, attempts, visualAnalysis, combined,
                   response>>

\* .on('error'): reject(err); extractAudio rethrows, the handler answers 500
AudioError ==
    /\ UNCHANGED <<rvars, svars>>
    /\ pc = "extractYouTubeAudio"
    /\ env.audioFault # "none"
    /\ pc' = "responded"
    /\ call' = [call EXCEPT !["extractAudio"] = "threw"]
    /\ response' = Error500("Failed to extract audio from video")
    /\ UNCHANGED <<env, fs, unlinkCalls, unlinkErr, pendingUnlink, written,
                   frames, idx, analyses, attempts, transcript, visualAnalysis,
                   combined>>

\* await fs.readFile(audioPath) succeeded; the transcription request is sent
ReadAudio ==
    /\ UNCHANGED <<rvars, svars>>
    /\ pc = "readAudio"
    /\ env.sttFault # "read"
    /\ AudioPath \in fs
    /\ pc' = "whisper"
    /\ UNCHANGED <<env, fs, unlinkCalls, unlinkErr, pendingUnlink, call,
                   written, frames, idx, analyses, attempts, transcript,
                   visualAnalysis, combined, response>>

\* transcribeAudio's catch with the cleanupFile call forgotten
TranscribeFailNoCleanup ==
    /\ UNCHANGED <<rvars, svars>>
    /\ \/ pc = "readAudio" /\ (env.sttFault = "read" \/ AudioPath \notin fs)
       \/ pc = "whisper" /\ env.sttFault = "service"
    /\ pc' = "responded"
    /\ call' = [call EXCEPT !["transcribeAudio"] = "threw"]
    /\ response' = Error500("Failed to transcribe audio")
    /\ UNCHANGED <<env, fs, unlinkCalls, unlinkErr, pendingUnlink, written,
                   frames, idx, analyses, attempts, transcript,
                   visualAnalysis, combined>>

\* transcribeAudio's catch: cleanupFile, then 'Failed to transcribe audio'
TranscribeFail ==
    /\ UNCHANGED <<rvars, svars>>
    /\ \/ pc = "readAudio" /\ (env.sttFault = "read" \/ AudioPath \notin fs)
       \/ pc = "whisper" /\ env.sttFault = "service"
    /\ \E ok \in BOOLEAN : cleanupFile(AudioPath, ok)
    /\ pc' = "responded"
    /\ call' = [call EXCEPT !["transcribeAudio"] = "threw"]
    /\ response' = Error500("Failed to transcribe audio")
    /\ UNCHANGED <<env, pendingUnlink, written, frames, idx, analyses,
                   attempts, transcript, visualAnalysis, combined>>

\* the transcription arrives: cleanupFile, return the transcript; the handler
\* calls analyzeVisuals, whose extractFrames starts the video download
TranscribeOk ==
    /\ UNCHANGED <<rvars, svars>>
    /\ pc = "whisper"
    /\ env.sttFault = "none"
    /\ \E resp \in WhisperResponses :
        transcript' = [text |-> resp.text,
                       segments |-> IF resp.hasSegments THEN resp.segments ELSE <<>>,
                       duration |-> calculateDuration(resp),
                       language |-> "en"]
    /\ \E ok \in BOOLEAN : cleanupFile(AudioPath, ok)
    /\ pc' = "downloading"
    /\ call' = [call EXCEPT !["transcribeAudio"] = "returned",
                            !["analyzeVisuals"] = "running",
                            !["extractFrames"] = "running"]
    /\ UNCHANGED <<env, pendingUnlink, written, frames, idx, analyses,
                   attempts, visualAnalysis, combined, response>>

----------------------------------------------------------------------------
(* Visual branch *)

\* analyzeVisuals' catch returns this
VisualFallback ==
    [keyVisualElements |-> <<>>, textInImages |-> <<>>,
     sceneChanges |-> <<>>, importantVisuals |-> <<>>]

\* analyzeFrames' return value
VisualSummary(notes) ==
    [frameAnalyses |-> notes,
     keyVisualElements |-> extractKeyVisualElements(notes),
     textInImages |-> extractTextFromAnalyses(notes),
     importantVisuals |-> identifyImportantVisuals(notes)]

\* const combinedContent = { transcript, visualNotes: visualAnalysis, url }
Combine(t, v) == [transcript |-> t, visualNotes |-> v]

\* analyses.unshift(...) in place of push
PushNoteFront(notes, framePath, desc) ==
    <<[frame |-> framePath, analysis |-> desc]>> \o notes

\* analyses.push({frame, analysis, timestamp}), timestamps left out
PushNote(notes, framePath, desc) ==
    Append(notes, [frame |-> framePath, analysis |-> desc])

\* createWriteStream(tempVideoPath) has opened the file and receives data
DownloadWrite ==
    /\ UNCHANGED <<rvars, svars>>
    /\ pc = "downloading"
    /\ VideoPath \notin fs
    /\ fs' = fs \cup {VideoPath}
    /\ UNCHANGED <<pc, env, unlinkCalls, unlinkErr, pendingUnlink, call,
                   written, frames, idx, analyses, attempts, transcript,
                   visualAnalysis, combined, response>>

\* writeStream 'finish' with resolve(frames) called right after the paths are
\* pushed, without waiting for ffmpeg's 'end'
DownloadFinishResolvesEarly ==
    /\ UNCHANGED <<rvars, svars>>
    /\ pc = "downloading"
    /\ env.videoFault # "download"
    /\ fs' = fs \cup {VideoPath}
    /\ frames' = [i \in 1..frameCount |-> FramePath(i)]
    /\ pc' = "analyzeFrames"
    /\ idx' = 1
    /\ call' = [call EXCEPT !["extractFrames"] = "returned",
                            !["analyzeFrames"] = "running"]
    /\ UNCHANGED <<env, unlinkCalls, unlinkErr, pendingUnlink, written,
                   analyses, attempts, transcript, visualAnalysis,
                   combined, response>>

\* writeStream 'finish': ffmpeg(tempVideoPath)...screenshots() is started and
\* the frame paths 1..frameCount are pushed at once
DownloadFinish ==
    /\ UNCHANGED <<rvars, svars>>
    /\ pc = "downloading"
    /\ env.videoFault # "download"
    /\ fs' = fs \cup {VideoPath}
    /\ frames' = [i \in 1..frameCount |-> FramePath(i)]
    /\ pc' = "screenshots"
    /\ UNCHANGED <<env, unlinkCalls, unlinkErr, pendingUnlink, call, written,
                   idx, analyses, attempts, transcript, visualAnalysis,
                   combined, response>>

\* the ytdl stream errors: nothing listens, 'finish' never fires and the
\* promise of extractFrames is never settled
DownloadError ==
    /\ UNCHANGED <<rvars, svars>>
    /\ pc = "downloading"
    /\ env.videoFault = "download"
    /\ pc' = "stalled"
    /\ UNCHANGED <<env, fs, unlinkCalls, unlinkErr, pendingUnlink, call,
                   written, frames, idx, analyses, attempts, transcript,
                   visualAnalysis, combined, response>>

\* ffmpeg writes the next screenshot into tempDir
ScreenshotWrite ==
    /\ UNCHANGED <<rvars, svars>>
    /\ pc = "screenshots"
    /\ written < frameCount
    /\ written' = written + 1
    /\ fs' = fs \cup {FramePath(written + 1)}
    /\ UNCHANGED <<pc, env, unlinkCalls, unlinkErr, pendingUnlink, call,
                   frames, idx, analyses, attempts, transcript,
                   visualAnalysis, combined, response>>

\* .on('end'): this.cleanupFile(tempVideoPath) unawaited, resolve(frames);
\* analyzeVisuals goes on to analyzeFrames(frames)
ScreenshotsEnd ==
    /\ UNCHANGED <<rvars, svars>>
    /\ pc = "screenshots"
    /\ env.videoFault = "none"
    /\ written = frameCount
    /\ cleanupFileDetached(VideoPath)
    /\ pc' = "analyzeFrames"
    /\ idx' = 1
    /\ call' = [call EXCEPT !["extractFrames"] = "returned",
                            !["analyzeFrames"] = "running"]
    /\ UNCHANGED <<env, written, frames, analyses, attempts, transcript,
                   visualAnalysis, combined, response>>

\* .on('error') with analyzeVisuals rethrowing instead of returning the fallback
ScreenshotsErrorRethrow ==
    /\ UNCHANGED <<rvars, svars>>
    /\ pc = "screenshots"
    /\ env.videoFault = "decode"
    /\ cleanupFileDetached(VideoPath)
    /\ pc' = "responded"
    /\ call' = [call EXCEPT !["extractFrames"] = "threw",
                            !["analyzeVisuals"] = "threw"]
    /\ response' = Error500("Failed to analyze visuals")
    /\ UNCHANGED <<env, written, frames, idx, analyses, attempts, transcript,
                   visualAnalysis, combined>>

\* .on('error'): this.cleanupFile(tempVideoPath) unawaited, reject(err);
\* analyzeVisuals catches and returns the fallback, the handler combines
ScreenshotsError ==
    /\ UNCHANGED <<rvars, svars>>
    /\ pc = "screenshots"
    /\ env.videoFault = "decode"
    /\ cleanupFileDetached(VideoPath)
    /\ visualAnalysis' = VisualFallback
    /\ combined' = Combine(transcript, VisualFallback)
    /\ pc' = "generate"
    /\ call' = [call EXCEPT !["extractFrames"] = "threw",
                            !["analyzeVisuals"] = "returned"]
    /\ UNCHANGED <<env, written, frames, idx, analyses, attempts, transcript,
                   response>>

\* the loop without its inner try/catch: a frameError reaches the outer catch,
\* which returns the empty summary
AnalyzeFrameAbortOnError ==
    /\ UNCHANGED <<rvars, svars>>
    /\ pc = "analyzeFrames"
    /\ idx <= Len(frames)
    /\ attempts' = [attempts EXCEPT ![idx] = @ + 1]
    /\ IF idx \in env.frameFails \/ frames[idx] \notin fs
       THEN /\ visualAnalysis' = [frameAnalyses |-> <<>>,
                                  keyVisualElements |-> <<>>,
                                  textInImages |-> <<>>,
                                  importantVisuals |-> <<>>]
            /\ pc' = "cleanupFrames"
            /\ idx' = 1
            /\ call' = [call EXCEPT !["analyzeFrames"] = "returned"]
            /\ UNCHANGED analyses
       ELSE /\ \E d \in Descriptions :
                analyses' = PushNote(analyses, frames[idx], d)
            /\ idx' = idx + 1
            /\ UNCHANGED <<pc, call, visualAnalysis>>
    /\ UNCHANGED <<env, fs, unlinkCalls, unlinkErr, pendingUnlink, written,
                   frames, transcript, combined, response>>

\* one iteration of for (const framePath of framePaths): readFile, the vision
\* call, push; a frameError is logged and the loop continues
AnalyzeFrame ==
    /\ UNCHANGED <<rvars, svars>>
    /\ pc = "analyzeFrames"
    /\ idx <= Len(frames)
    /\ attempts' = [attempts EXCEPT ![idx] = @ + 1]
    /\ IF idx \in env.frameFails \/ frames[idx] \notin fs
       THEN UNCHANGED analyses
       ELSE \E d \in Descriptions :
                analyses' = PushNote(analyses, frames[idx], d)
    /\ idx' = idx + 1
    /\ UNCHANGED <<pc, env, fs, unlinkCalls, unlinkErr, pendingUnlink, call,
                   written, frames, transcript, visualAnalysis, combined,
                   response>>

\* the loop is over: analyzeFrames returns its summary and analyzeVisuals
\* starts for (const frame of frames) await this.cleanupFile(frame)
AnalyzeFramesReturn ==
    /\ UNCHANGED <<rvars, svars>>
    /\ pc = "analyzeFrames"
    /\ idx > Len(frames)
    /\ visualAnalysis' = VisualSummary(analyses)
    /\ pc' = "cleanupFrames"
    /\ idx' = 1
    /\ call' = [call EXCEPT !["analyzeFrames"] = "returned"]
    /\ UNCHANGED <<env, fs, unlinkCalls, unlinkErr, pendingUnlink, written,
                   frames, analyses, attempts, transcript, combined, response>>

\* await this.cleanupFile(frame) for the next frame
CleanupFrame ==
    /\ UNCHANGED <<rvars, svars>>
    /\ pc = "cleanupFrames"
    /\ idx <= Len(frames)
    /\ \E ok \in BOOLEAN : cleanupFile(frames[idx], ok)
    /\ idx' = idx + 1
    /\ UNCHANGED <<pc, env, pendingUnlink, call, written, frames, analyses,
                   attempts, transcript, visualAnalysis, combined, response>>

\* return visualAnalysis; the handler builds combinedContent
AnalyzeVisualsReturn ==
    /\ UNCHANGED <<rvars, svars>>
    /\ pc = "cleanupFrames"
    /\ idx > Len(frames)
    /\ combined' = Combine(transcript, visualAnalysis)
    /\ pc' = "generate"
    /\ call' = [call EXCEPT !["analyzeVisuals"] = "returned"]
    /\ UNCHANGED <<env, fs, unlinkCalls, unlinkErr, pendingUnlink, written,
                   frames, idx, analyses, attempts, transcript, visualAnalysis,
                   response>>

----------------------------------------------------------------------------
(* Generation and response *)

\* switch (format): the selected generator answers, res.json(...)
GenerateOk ==
    /\ UNCHANGED <<rvars, svars>>
    /\ pc = "generate"
    /\ ~env.genFails
    /\ \E f \in Formats : response' = Success200(f, transcript.duration)
    /\ pc' = "responded"
    /\ UNCHANGED <<env, fs, unlinkCalls, unlinkErr, pendingUnlink, call,
                   written, frames, idx, analyses, attempts, transcript,
                   visualAnalysis, combined>>

\* the selected generator throws: the handler's catch answers 500
GenerateFail ==
    /\ UNCHANGED <<rvars, svars>>
    /\ pc = "generate"
    /\ env.genFails
    /\ response' = Error500("generator failed")
    /\ pc' = "responded"
    /\ UNCHANGED <<env, fs, unlinkCalls, unlinkErr, pendingUnlink, call,
                   written, frames, idx, analyses, attempts, transcript,
                   visualAnalysis, combined>>

----------------------------------------------------------------------------

Next ==
    \/ Receive
    \/ FfmpegWriteAudio
    \/ AudioEnd
    \/ AudioError
    \/ ReadAudio
    \/ TranscribeFail
    \/ TranscribeOk
    \/ DownloadWrite
    \/ DownloadFinish
    \/ DownloadError
    \/ ScreenshotWrite
    \/ ScreenshotsEnd
    \/ ScreenshotsError
    \/ AnalyzeFrame
    \/ AnalyzeFramesReturn
    \/ CleanupFrame
    \/ AnalyzeVisualsReturn
    \/ GenerateOk
    \/ GenerateFail
    \/ UnlinkDone

Spec == Init /\ [][Next]_vars

\* the events extractFrames waits for: the write stream's 'finish', ffmpeg's
\* screenshots, its 'end' and its 'error', and the download stream's error
ExtractFramesStep ==
    \/ DownloadWrite
    \/ DownloadFinish
    \/ DownloadError
    \/ ScreenshotWrite
    \/ ScreenshotsEnd
    \/ ScreenshotsError

\* The same request under the scheduling Node gives extractFrames: ytdl, the
\* write stream and ffmpeg eventually emit the event env has chosen for them,
\* and a listener that is registered for it is eventually run
LiveSpec == Init /\ [][Next]_vars /\ WF_vars(ExtractFramesStep)

----------------------------------------------------------------------------
(* Concurrent runs, step by step *)

\* a request arrives for run r; extractAudio resolves the ID, builds audioPath
\* and, for a YouTube URL, hands it to ffmpeg(...).save(audioPath)
StartRun(r) ==
    /\ run[r].pc = "idle"
    /\ \E u \in Urls :
        LET vid  == extractVideoId(u.s, uuids + 1)
            used == IF vid.kind = "uuid" THEN 1 ELSE 0
            ap   == TempPath(vid, "wav", uuids + used + 1)
        IN  IF vid.kind = "raised"
            THEN /\ run' = [run EXCEPT ![r] =
                        [IdleRun EXCEPT !.pc = "failed", !.url = u, !.ids = <<vid>>]]
                 /\ UNCHANGED uuids
            ELSE /\ uuids' = uuids + used + 1
                 /\ run' = [run EXCEPT ![r] =
                        [pc |-> IF TestYouTube(u.s) THEN "audio" ELSE "failed",
                         url |-> u, ids |-> <<vid>>, audioPath |-> ap,
                         videoId |-> NoId,
                         paths |-> IF TestYouTube(u.s) THEN {ap} ELSE {}]]
    /\ UNCHANGED <<pvars, svars>>

\* ffmpeg 'end' or 'error' for the audio of run r
AudioSettles(r) ==
    /\ run[r].pc = "audio"
    /\ \E ok \in BOOLEAN :
        run' = [run EXCEPT ![r].pc = IF ok THEN "transcribe" ELSE "failed"]
    /\ UNCHANGED <<uuids, pvars, svars>>

\* transcribeAudio reads and unlinks audioPath; on success analyzeVisuals calls
\* extractFrames, which resolves the ID again and opens `${videoId}-temp.mp4`
TranscribeSettles(r) ==
    /\ run[r].pc = "transcribe"
    /\ \E ok \in BOOLEAN :
        IF ~ok
        THEN /\ run' = [run EXCEPT ![r].pc = "failed"]
             /\ UNCHANGED uuids
        ELSE LET vid == extractVideoId(run[r].url.s, uuids + 1)
             IN  IF vid.kind = "raised"
                 THEN /\ run' = [run EXCEPT ![r].pc = "done",
                                            ![r].ids = Append(@, vid)]
                      /\ UNCHANGED uuids
                 ELSE /\ uuids' = uuids + (IF vid.kind = "uuid" THEN 1 ELSE 0)
                      /\ run' = [run EXCEPT
                            ![r].pc = "download",
                            ![r].ids = Append(@, vid),
                            ![r].videoId = vid,
                            ![r].paths = @ \cup {TempPath(vid, "mp4", 0)}]
    /\ UNCHANGED <<pvars, svars>>

\* writeStream 'finish': ffmpeg screenshots are started into
\* `${videoId}-frame-%i.png` and the frame paths are collected; or the
\* download stream errors and extractFrames stays pending
DownloadSettles(r) ==
    /\ run[r].pc = "download"
    /\ \E ok \in BOOLEAN :
        IF ok
        THEN run' = [run EXCEPT
                ![r].pc = "frames",
                ![r].paths = @ \cup { TempPath(run[r].videoId, "png", i) :
                                        i \in 1..frameCount }]
        ELSE run' = [run EXCEPT ![r].pc = "stalled"]
    /\ UNCHANGED <<uuids, pvars, svars>>

\* the frames of run r are written, read by analyzeFrames and unlinked by
\* analyzeVisuals, the video file is unlinked: the run is over
FramesDone(r) ==
    /\ run[r].pc = "frames"
    /\ run' = [run EXCEPT ![r].pc = "done"]
    /\ UNCHANGED <<uuids, pvars, svars>>

RunsNext ==
    \/ \E r \in Runs : StartRun(r)
    \/ \E r \in Runs : AudioSettles(r)
    \/ \E r \in Runs : TranscribeSettles(r)
    \/ \E r \in Runs : DownloadSettles(r)
    \/ \E r \in Runs : FramesDone(r)

RunsSpec == Init /\ [][RunsNext]_vars

----------------------------------------------------------------------------
(* analyzeFrames, await by await *)

\* analyzeFrames(framePaths) is called with the first n frame paths
CallAnalyzeFrames ==
    /\ analyzeCall.pc = "idle"
    /\ \E n \in 0..frameCount :
       \E missing \in SUBSET (1..n) : \E fails \in SUBSET (1..n) :
        analyzeCall' = [IdleCall EXCEPT
                            !.pc = "loop",
                            !.framePaths = [k \in 1..n |-> FramePath(k)],
                            !.missing = missing,
                            !.visionFails = fails,
                            !.i = 1]
    /\ UNCHANGED restOfFrames

\* the loop with the vision request sent and not awaited: the next iteration
\* starts while the request is outstanding
ReadFrameNoAwait ==
    /\ analyzeCall.pc = "loop"
    /\ analyzeCall.i <= Len(analyzeCall.framePaths)
    /\ LET i == analyzeCall.i
       IN  IF i \in analyzeCall.missing
           THEN analyzeCall' = [analyzeCall EXCEPT !.i = i + 1,
                                                   !.completed = @ \cup {i}]
           ELSE analyzeCall' = [analyzeCall EXCEPT !.i = i + 1,
                                                   !.inFlight = @ \cup {i},
                                                   !.visionCalls = @ + 1]
    /\ UNCHANGED restOfFrames

\* await fs.readFile(framePath): on an error the catch logs and continues;
\* otherwise openai.chat.completions.create is sent and awaited
ReadFrame ==
    /\ analyzeCall.pc = "loop"
    /\ analyzeCall.i <= Len(analyzeCall.framePaths)
    /\ LET i == analyzeCall.i
       IN  IF i \in analyzeCall.missing
           THEN analyzeCall' = [analyzeCall EXCEPT !.i = i + 1,
                                                   !.completed = @ \cup {i}]
           ELSE analyzeCall' = [analyzeCall EXCEPT !.pc = "vision",
                                                   !.inFlight = @ \cup {i},
                                                   !.visionCalls = @ + 1]
    /\ UNCHANGED restOfFrames

\* the awaited vision request is answered: analyses.push, or the catch logs
\* and continues; either way the loop moves to the next frame
VisionSettles ==
    /\ analyzeCall.pc = "vision"
    /\ \E j \in analyzeCall.inFlight :
        \/ /\ j \in analyzeCall.visionFails
           /\ analyzeCall' = [analyzeCall EXCEPT !.pc = "loop",
                                                  !.i = j + 1,
                                                  !.inFlight = @ \ {j},
                                                  !.completed = @ \cup {j}]
        \/ /\ j \notin analyzeCall.visionFails
           /\ \E d \in Descriptions :
                analyzeCall' = [analyzeCall EXCEPT
                    !.pc = "loop",
                    !.i = j + 1,
                    !.inFlight = @ \ {j},
                    !.completed = @ \cup {j},
                    !.analyses = PushNote(@, analyzeCall.framePaths[j], d)]
    /\ UNCHANGED restOfFrames

\* the return with a guard that throws when there is nothing to analyse
AnalyzeCallReturnRejectsEmpty ==
    /\ analyzeCall.pc = "loop"
    /\ analyzeCall.i > Len(analyzeCall.framePaths)
    /\ IF analyzeCall.framePaths = <<>>
       THEN analyzeCall' = [analyzeCall EXCEPT !.pc = "threw"]
       ELSE analyzeCall' = [analyzeCall EXCEPT
                                !.pc = "returned",
                                !.result = VisualSummary(analyzeCall.analyses)]
    /\ UNCHANGED restOfFrames

\* the loop is over: return {frameAnalyses, keyVisualElements, textInImages,
\* importantVisuals}
AnalyzeCallReturn ==
    /\ analyzeCall.pc = "loop"
    /\ analyzeCall.i > Len(analyzeCall.framePaths)
    /\ analyzeCall' = [analyzeCall EXCEPT
                            !.pc = "returned",
                            !.result = VisualSummary(analyzeCall.analyses)]
    /\ UNCHANGED restOfFrames

FramesNext ==
    \/ CallAnalyzeFrames
    \/ ReadFrame
    \/ VisionSettles
    \/ AnalyzeCallReturn

FramesSpec == Init /\ [][FramesNext]_vars

----------------------------------------------------------------------------
(* ChatbotService *)

\* startSession(content, title): a fresh ID, the session record and a history
\* that holds the system message
startSession ==
    /\ \E s \in SessionIds \ usedIds :
        /\ usedIds' = usedIds \cup {s}
        /\ sessions' = MapSet(sessions, s, NewSession(now))
        /\ chatHistory' = MapSet(chatHistory, s, <<"system">>)
    /\ UNCHANGED <<pendingChat, now, restOfChat>>

\* processMessage up to its await: the session must exist and be active, the
\* user message is pushed, the completion is requested
ProcessMessageSend ==
    /\ \E s \in DOMAIN sessions :
        /\ sessions[s].isActive
        /\ [op |-> "processMessage", sid |-> s] \notin pendingChat
        /\ RoomFor(s)
        /\ chatHistory' = [chatHistory EXCEPT ![s] = Append(@, "user")]
        /\ pendingChat' = pendingChat \cup {[op |-> "processMessage", sid |-> s]}
    /\ UNCHANGED <<sessions, usedIds, now, restOfChat>>

\* processMessage after its await: the assistant message is pushed and the
\* session updated, or the completion failed and the catch rethrows.  The call
\* holds the session and history objects: once cleanupOldSessions has deleted
\* them from the Maps its writes are not visible any more
ProcessMessageSettles ==
    /\ \E c \in pendingChat : \E ok \in BOOLEAN :
        /\ c.op = "processMessage"
        /\ pendingChat' = pendingChat \ {c}
        /\ IF ok /\ c.sid \in DOMAIN sessions
           THEN /\ chatHistory' = [chatHistory EXCEPT ![c.sid] = Append(@, "assistant")]
                /\ sessions' = [sessions EXCEPT
                                    ![c.sid].lastActivity = now,
                                    ![c.sid].messageCount = @ + 2]
           ELSE UNCHANGED <<sessions, chatHistory>>
    /\ UNCHANGED <<usedIds, now, restOfChat>>

\* askQuestion(content, question, sessionId) up to its await
AskQuestionSend ==
    /\ \E s \in SessionIds \cup {NoSession} :
        /\ [op |-> "askQuestion", sid |-> s] \notin pendingChat
        /\ RoomFor(s)
        /\ pendingChat' = pendingChat \cup {[op |-> "askQuestion", sid |-> s]}
    /\ UNCHANGED <<sessions, chatHistory, usedIds, now, restOfChat>>

\* askQuestion after its await: if (sessionId && this.chatHistory.has(sessionId))
\* the question and the answer are pushed; a failed completion pushes nothing
AskQuestionSettles ==
    /\ \E c \in pendingChat : \E ok \in BOOLEAN :
        /\ c.op = "askQuestion"
        /\ pendingChat' = pendingChat \ {c}
        /\ IF ok /\ c.sid # NoSession /\ c.sid \in DOMAIN chatHistory
           THEN chatHistory' = [chatHistory EXCEPT
                                    ![c.sid] = @ \o <<"user", "assistant">>]
           ELSE UNCHANGED chatHistory
    /\ UNCHANGED <<sessions, usedIds, now, restOfChat>>

\* endSession(sessionId): isActive = false (endTime left out)
endSession ==
    /\ \E s \in DOMAIN sessions :
        /\ sessions[s].isActive
        /\ sessions' = [sessions EXCEPT ![s].isActive = FALSE]
    /\ UNCHANGED <<chatHistory, usedIds, pendingChat, now, restOfChat>>

\* the sessions cleanupOldSessions finds too old: now - lastActivity > maxAge
Expired == { s \in DOMAIN sessions : now - sessions[s].lastActivity > maxAge }

\* cleanupOldSessions with the chatHistory.delete forgotten
cleanupOldSessionsKeepsHistory ==
    /\ Expired # {}
    /\ sessions' = MapDelete(sessions, Expired)
    /\ UNCHANGED <<chatHistory, usedIds, pendingChat, now, restOfChat>>

\* cleanupOldSessions(): both Maps lose every session that is too old
cleanupOldSessions ==
    /\ Expired # {}
    /\ sessions' = MapDelete(sessions, Expired)
    /\ chatHistory' = MapDelete(chatHistory, Expired)
    /\ UNCHANGED <<usedIds, pendingChat, now, restOfChat>>

\* twelve hours pass
Tick ==
    /\ now < MaxClock
    /\ now' = now + 1
    /\ UNCHANGED <<sessions, chatHistory, usedIds, pendingChat, restOfChat>>

ChatNext ==
    \/ startSession
    \/ ProcessMessageSend
    \/ ProcessMessageSettles
    \/ AskQuestionSend
    \/ AskQuestionSettles
    \/ endSession
    \/ cleanupOldSessions
    \/ Tick

ChatSpec == Init /\ [][ChatNext]_vars

----------------------------------------------------------------------------
(* Document upload handlers *)

\* catch (error): res.status(500), pdfService.cleanupFile(req.file.path) unawaited
DocCatch ==
    /\ doc' = [doc EXCEPT !.pc = "responded", !.status = 500]
    /\ docCleanup' = docCleanup \cup {"unlink"}

\* multer has run and the handler starts: no file, the extension checks, or
\* the first await on pdfService
DocReceive ==
    /\ doc.pc = "idle"
    /\ \E e \in DocEnvs :
        IF ~e.hasFile
        THEN /\ doc' = [doc EXCEPT !.pc = "responded", !.env = e, !.status = 400]
             /\ UNCHANGED <<uploadsDir, docCleanup>>
        ELSE /\ uploadsDir' = uploadsDir \cup {UploadPath}
             /\ IF e.route = "/extract-pages" /\ e.ext # ".pdf"
                THEN \* return res.status(400): 'only supported for PDF files'
                     /\ doc' = [doc EXCEPT !.pc = "responded", !.env = e,
                                           !.status = 400]
                     /\ UNCHANGED docCleanup
                ELSE IF e.ext \notin SupportedExtensions
                THEN \* default: throw new Error('Unsupported file format')
                     /\ doc' = [doc EXCEPT !.pc = "responded", !.env = e,
                                           !.status = 500]
                     /\ docCleanup' = docCleanup \cup {"unlink"}
                ELSE /\ doc' = [doc EXCEPT !.pc = "extract", !.env = e]
                     /\ UNCHANGED docCleanup
    /\ UNCHANGED restOfDocs

\* the awaited pdfService call settles: it throws into the catch, or
\* /metadata answers and cleans up, or the generator is called
DocExtractSettles ==
    /\ doc.pc = "extract"
    /\ IF doc.env.extractFails
       THEN DocCatch
       ELSE IF doc.env.route = "/metadata"
       THEN /\ doc' = [doc EXCEPT !.pc = "responded", !.status = 200]
            /\ docCleanup' = docCleanup \cup {"unlink"}
       ELSE /\ doc' = [doc EXCEPT !.pc = "generate"]
            /\ UNCHANGED docCleanup
    /\ UNCHANGED <<uploadsDir, restOfDocs>>

\* the awaited generator settles: it throws into the catch, or the handler
\* answers; /analyze defers the cleanup by setTimeout(..., 60000),
\* /extract-pages calls cleanupFile at once
DocGenerateSettles ==
    /\ doc.pc = "generate"
    /\ IF doc.env.genFails
       THEN DocCatch
       ELSE /\ doc' = [doc EXCEPT !.pc = "responded", !.status = 200]
            /\ docCleanup' = docCleanup \cup
                    {IF doc.env.route = "/analyze" THEN "timer" ELSE "unlink"}
    /\ UNCHANGED <<uploadsDir, restOfDocs>>

\* the one-minute timer fires: pdfService.cleanupFile(filePath)
DocTimerFires ==
    /\ "timer" \in docCleanup
    /\ docCleanup' = (docCleanup \ {"timer"}) \cup {"unlink"}
    /\ UNCHANGED <<doc, uploadsDir, restOfDocs>>

\* pdfService.cleanupFile: fs.unlink succeeds, or fails and is logged
DocUnlinkDone ==
    /\ "unlink" \in docCleanup
    /\ docCleanup' = docCleanup \ {"unlink"}
    /\ \E ok \in BOOLEAN :
        /\ uploadsDir' = Unlink(uploadsDir, UploadPath, ok)
        /\ doc' = [doc EXCEPT !.unlinkFailed = ~ok]
    /\ UNCHANGED restOfDocs

DocsNext ==
    \/ DocReceive
    \/ DocExtractSettles
    \/ DocGenerateSettles
    \/ DocTimerFires
    \/ DocUnlinkDone

DocsSpec == Init /\ [][DocsNext]_vars

----------------------------------------------------------------------------
(* Download history *)

\* addToHistory(entry): id and timestamp are given, the entry is unshifted
\* and the array cut back to its first historyCap entries
addToHistory ==
    /\ added < MaxAdds
    /\ \E t \in DownloadTypes :
        LET entry == [type |-> t, id |-> added + 1]
            grown == <<entry>> \o downloadHistory
        IN  downloadHistory' = IF Len(grown) > historyCap
                               THEN SliceTo(grown, historyCap)
                               ELSE grown
    /\ added' = added + 1
    /\ UNCHANGED <<lastQuery, restOfHistory>>

\* getDownloadHistory(limit, type)
getDownloadHistory ==
    /\ \E limit \in Limits : \E type \in DownloadTypes \cup {NoType} :
        LET history == FilterByType(downloadHistory, type)
        IN  lastQuery' = [limit |-> limit, type |-> type,
                          downloads |-> SliceTo(history, limit),
                          total |-> Len(history)]
    /\ UNCHANGED <<downloadHistory, added, restOfHistory>>

HistoryNext ==
    \/ addToHistory
    \/ getDownloadHistory

HistorySpec == Init /\ [][HistoryNext]_vars

----------------------------------------------------------------------------
(* Vocabulary of the properties *)

Responded == pc = "responded"

\* no unlink is in flight and none was refused by the operating system
UnlinksSettled == pendingUnlink = {} /\ unlinkErr = {}

\* the request's audio branch is made to fail / its visual branch would succeed
AudioForcedToFail == env.audioFault # "none" \/ env.sttFault # "none"

VisualForcedToFail == env.videoFault # "none"

\* the branches whose underlying error a 500 response carries in its message
ErrorsReferenced(r) ==
    IF r.message \in {"Failed to extract audio from video",
                      "Failed to transcribe audio"}
    THEN {"audio"} ELSE {}

\* a visual summary with no frame notes and no tags
EmptyVisualSummary(v) ==
    /\ ("frameAnalyses" \in DOMAIN v => v.frameAnalyses = <<>>)
    /\ v.keyVisualElements = <<>>

NoteFrames(notes) == [i \in 1..Len(notes) |-> notes[i].frame]

----------------------------------------------------------------------------
(* Properties *)

\* C1: once a run has finished (and no deletion is still in flight or was
\* refused), no temporary file of the run is left in the scratch directory.
C1_NoLeakedFiles ==
    (Responded /\ UnlinksSettled) => fs = {}

\* C2: when the audio branch fails and the visual branch succeeds, the request
\* answers successfully with an empty transcript (empty text, zero duration)
\* and a degraded-result flag.
C2_DegradedOnAudioFailure ==
    (Responded /\ isYouTubeUrl(env) /\ AudioForcedToFail
        /\ ~VisualForcedToFail /\ env.frameFails = {} /\ ~env.genFails)
    => /\ response.status = 200
       /\ combined # None
       /\ combined.transcript.text = ""
       /\ combined.transcript.duration = 0
       /\ "degraded" \in DOMAIN response

\* C3: when both branches fail, the request fails with one error that
\* references the audio error and the visual error, and no content is returned.
C3_BothErrorsReferenced ==
    (Responded /\ isYouTubeUrl(env) /\ AudioForcedToFail /\ VisualForcedToFail)
    => /\ response.status = 500
       /\ combined = None
       /\ ErrorsReferenced(response) = {"audio", "visual"}

\* C4: when frame sampling raises after the audio branch succeeded, the
\* request does not fail because of it: the handler goes on to aggregation
\* with a visual summary that has no frame notes and no tags, and with the
\* transcript that transcribeAudio returned.
C4_VisualFailureNotFatal ==
    call["extractFrames"] = "threw"
    => /\ call["transcribeAudio"] = "returned"
       /\ call["analyzeVisuals"] = "returned"
       /\ pc \in {"generate", "responded"}
       /\ combined # None
       /\ EmptyVisualSummary(combined.visualNotes)
       /\ combined.transcript = transcript
       /\ transcript # None
       /\ (Responded /\ ~env.genFails
            => response.status = 200 /\ response.duration = transcript.duration)

C4_Witness ==
    /\ call["extractFrames"] = "threw"
    /\ Responded
    /\ response.status = 200
    /\ Len(combined.transcript.segments) = 2

\* C5: a failure of the audio branch does not keep the visual branch from
\* running: a finished request whose audio branch failed has called
\* analyzeVisuals.
C5_VisualRunsAfterAudioFailure ==
    (Responded /\ (call["extractAudio"] = "threw"
                    \/ call["transcribeAudio"] = "threw"))
    => call["analyzeVisuals"] # "notCalled"

\* C6: when audio extraction fails on a stream or transcoder error, the audio
\* file it was writing no longer exists when the failure is surfaced.
C6_NoPartialAudioFile ==
    (call["extractAudio"] = "threw" /\ isYouTubeUrl(env)
        /\ env.audioFault # "none")
    => AudioPath \notin fs

\* C7: when transcribeAudio has delivered its result or its error, unlink has
\* been performed on the audio file, and the file is gone unless the
\* operating system refused the unlink.
C7_AudioDeletedByTranscribe ==
    call["transcribeAudio"] \in {"returned", "threw"}
    => /\ AudioPath \in unlinkCalls
       /\ AudioPath \notin unlinkErr => AudioPath \notin fs

C7_Witness ==
    /\ call["transcribeAudio"] = "threw"
    /\ env.sttFault = "service"
    /\ AudioPath \in unlinkCalls
    /\ AudioPath \notin fs

\* C8: once extractFrames has returned or failed, the downloaded full-video
\* file no longer exists (unless the operating system refused the unlink).
C8_VideoFileGoneAtReturn ==
    (call["extractFrames"] \in {"returned", "threw"}
        /\ VideoPath \notin unlinkErr)
    => VideoPath \notin fs

\* C9: analyzeFrames never raises; no frame is analysed more than once, and
\* when it returns every frame has had exactly one attempt, the failing ones
\* included, so a failing frame is skipped and the loop goes on.
C9_FrameFailuresSkipped ==
    /\ call["analyzeFrames"] # "threw"
    /\ \A i \in 1..frameCount : attempts[i] <= 1
    /\ call["analyzeFrames"] = "returned"
        => /\ \A i \in 1..Len(frames) : attempts[i] = 1
           /\ "frameAnalyses" \in DOMAIN visualAnalysis
           /\ \A i \in 1..Len(frames) :
                i \notin env.frameFails
                    => \E k \in 1..Len(visualAnalysis.frameAnalyses) :
                        visualAnalysis.frameAnalyses[k].frame = frames[i]

C9_Witness ==
    /\ call["analyzeFrames"] = "returned"
    /\ \E i \in env.frameFails : \E j \in (i+1)..frameCount :
        /\ j \notin env.frameFails
        /\ attempts[i] = 1
        /\ attempts[j] = 1

\* C10: the frame notes analyzeFrames returns are exactly the input frames
\* outside the failure set F, in sampling order: N - |F| notes, ascending by
\* frame index.
C10_NotesAreSuccessfulSubsequence ==
    call["analyzeFrames"] = "returned"
    => LET notes == visualAnalysis.frameAnalyses
       IN  /\ Len(notes) = Len(frames) - Cardinality(env.frameFails)
           /\ NoteFrames(notes)
                = SelectSeq(frames, LAMBDA p : FrameIndex(p) \notin env.frameFails)
           /\ \A i \in 1..(Len(notes) - 1) :
                FrameIndex(notes[i].frame) < FrameIndex(notes[i+1].frame)

C10_Witness ==
    /\ call["analyzeFrames"] = "returned"
    /\ Cardinality(env.frameFails) = 1
    /\ 1 \notin env.frameFails
    /\ frameCount \notin env.frameFails
    /\ Len(visualAnalysis.frameAnalyses) = frameCount - 1

\* C14: for a URL that is not a YouTube URL (Instagram: unimplemented, any
\* other: unrecognized) the request fails at once: extractAudio throws, no
\* other method is called, nothing is downloaded, transcoded, transcribed,
\* sampled or analysed, and no temp file is created.
C14_UnsupportedPlatformFailsEarly ==
    (pc # "idle" /\ ~isYouTubeUrl(env))
    => /\ Responded
       /\ response.status = 500
       /\ call["extractAudio"] = "threw"
       /\ \A m \in Methods \ {"extractAudio"} : call[m] = "notCalled"
       /\ fs = {}
       /\ unlinkCalls = {}
       /\ written = 0
       /\ frames = <<>>
       /\ transcript = None
       /\ combined = None

C14_Witness ==
    /\ Responded
    /\ isInstagramUrl(env)
    /\ response.status = 500
    /\ fs = {}

\* a response that reports a timeout
IsTimeoutError(r) == r.status \in {408, 504}

\* C15: a request whose deadline has already expired is answered with a
\* timeout error before any external call is attempted, and the scratch
\* directory is left unchanged.
C15_ExpiredDeadlineTimesOut ==
    (pc # "idle" /\ env.deadline = "expired")
    => /\ Responded
       /\ IsTimeoutError(response)
       /\ \A m \in Methods : call[m] = "notCalled"
       /\ fs = {}

BothBranchesSucceeded ==
    /\ pc \in {"generate", "responded"}
    /\ call["transcribeAudio"] = "returned"
    /\ call["extractFrames"] = "returned"
    /\ call["analyzeFrames"] = "returned"

\* C16: whenever both branches succeed, the transcript's segment list is
\* non-empty and ordered by non-decreasing start offset, and the frame notes
\* are ordered by frame index.
C16_SegmentsNonEmptyAndOrdered ==
    BothBranchesSucceeded
    => LET segs  == combined.transcript.segments
           notes == combined.visualNotes.frameAnalyses
       IN  /\ Len(segs) > 0
           /\ \A i \in 1..(Len(segs) - 1) : segs[i].start <= segs[i+1].start
           /\ \A i \in 1..(Len(notes) - 1) :
                FrameIndex(notes[i].frame) < FrameIndex(notes[i+1].frame)

\* what a caller can receive from a run in which both branches succeeded
FullySuccessfulResponses ==
    { Success200(f, calculateDuration(w)) : f \in Formats, w \in WhisperResponses }

\* C17: a successful response whose visual summary is the empty substitute is
\* distinguishable by the caller from every fully successful response.
C17_DegradedIsMarked ==
    (Responded /\ response.status = 200 /\ call["extractFrames"] = "threw")
    => response \notin FullySuccessfulResponses

\* C18: during analyzeFrames no frame that has already had its analysis
\* attempt still exists on disk (unless the operating system refused an unlink).
C18_AnalysedFramesDeleted ==
    (pc = "analyzeFrames" /\ unlinkErr = {})
    => \A i \in 1..(idx - 1) : frames[i] \notin fs

\* the order in which the methods of one request may have been entered
StageOrder ==
    /\ call["transcribeAudio"] # "notCalled" => call["extractAudio"] = "returned"
    /\ call["analyzeVisuals"] # "notCalled" => call["transcribeAudio"] = "returned"
    /\ call["extractFrames"] # "notCalled" => call["analyzeVisuals"] # "notCalled"
    /\ call["analyzeFrames"] # "notCalled" => call["extractFrames"] = "returned"
    /\ combined # None
        => /\ call["transcribeAudio"] = "returned"
           /\ call["analyzeVisuals"] = "returned"
           /\ call["extractFrames"] \in {"returned", "threw"}
           /\ call["analyzeFrames"] \in {"returned", "notCalled"}
    /\ pc = "generate" => combined # None
    /\ (Responded /\ response.status = 200) => combined # None

\* C20: the stages of a request are entered only in the order audio
\* extraction, transcription, frame sampling, frame analysis, aggregation,
\* each only after the one before it returned; once the request has been
\* answered or has aggregated, no method is entered or settled any more.
C20_StagesInOrder ==
    /\ []StageOrder
    /\ [][(Responded \/ combined # None) => call' = call]_vars

C20_Witness ==
    /\ Responded
    /\ response.status = 200
    /\ \A m \in Methods : call[m] = "returned"

\* C21: extractFrames always settles: whether the download or the file write
\* errors or the video cannot be decoded, a running extractFrames eventually
\* returns or fails (so that the request can go on to aggregation or fail).
C21_ExtractFramesSettles ==
    (call["extractFrames"] = "running")
        ~> (call["extractFrames"] \in {"returned", "threw"})

\* C22: the frame sequence reaches the caller only after ffmpeg has signalled
\* the end of the extraction: once extractFrames has returned the sequence
\* holds exactly frameCount paths in ascending frame-index order, each of a
\* frame that has been written (and is on disk while analyzeFrames runs), and
\* no frame is read by the analysis before extractFrames has returned.
C22_FramesHandedAfterCompletion ==
    /\ call["extractFrames"] = "returned"
        => /\ Len(frames) = frameCount
           /\ \A i \in 1..(Len(frames) - 1) :
                FrameIndex(frames[i]) < FrameIndex(frames[i+1])
           /\ \A i \in 1..Len(frames) : FrameIndex(frames[i]) \in 1..written
    /\ pc = "analyzeFrames" => \A i \in 1..Len(frames) : frames[i] \in fs
    /\ call["extractFrames"] # "returned"
        => /\ \A i \in 1..frameCount : attempts[i] = 0
           /\ analyses = <<>>
           /\ call["analyzeFrames"] = "notCalled"

C22_Witness ==
    /\ call["extractFrames"] = "returned"
    /\ pc = "analyzeFrames"
    /\ idx = 2
    /\ attempts[1] = 1
    /\ \A i \in 1..frameCount : FramePath(i) \in fs

\* C23: the duration of the transcript transcribeAudio returns is the end
\* offset of the last segment of the service's answer, and 0 when the answer
\* has no segments (the list is missing or empty).
C23_DurationIsLastSegmentEnd ==
    transcript # None
    => /\ transcript.segments = <<>> => transcript.duration = 0
       /\ transcript.segments # <<>>
            => transcript.duration
                = transcript.segments[Len(transcript.segments)].end
       /\ (Responded /\ response.status = 200)
            => response.duration = transcript.duration

C23_Witness ==
    /\ call["transcribeAudio"] = "returned"
    /\ Len(transcript.segments) = 2
    /\ transcript.segments[1].end # transcript.segments[2].end
    /\ transcript.duration = transcript.segments[2].end

\* C24: within one analyzeFrames call at most one vision request is in flight
\* at any time: the request for a frame is sent only when the attempt of every
\* earlier frame has completed, by success or by failure.
C24_OneVisionCallInFlight ==
    /\ Cardinality(analyzeCall.inFlight) <= 1
    /\ \A j \in analyzeCall.inFlight :
        /\ j = analyzeCall.i
        /\ \A k \in 1..(j - 1) : k \in analyzeCall.completed
    /\ analyzeCall.pc = "returned" => analyzeCall.inFlight = {}

C24_Witness ==
    /\ analyzeCall.inFlight = {frameCount}
    /\ analyzeCall.completed = 1..(frameCount - 1)
    /\ analyzeCall.visionCalls = frameCount
    /\ 1 \in analyzeCall.visionFails
    /\ Len(analyzeCall.analyses) = frameCount - 2

\* C25: analyzeFrames called with an empty frame sequence returns a visual
\* summary with no frame notes and no tags, without raising and without
\* sending any vision request.
C25_EmptyInputEmptySummary ==
    /\ analyzeCall.pc \in {"idle", "loop", "vision", "returned"}
    /\ (analyzeCall.pc # "idle" /\ analyzeCall.framePaths = <<>>)
        => /\ analyzeCall.visionCalls = 0
           /\ analyzeCall.inFlight = {}
           /\ analyzeCall.pc \in {"loop", "returned"}
           /\ analyzeCall.pc = "returned"
                => /\ analyzeCall.result.frameAnalyses = <<>>
                   /\ analyzeCall.result.keyVisualElements = <<>>
                   /\ analyzeCall.result.textInImages = <<>>
                   /\ analyzeCall.result.importantVisuals = <<>>

C25_Witness ==
    /\ analyzeCall.pc = "returned"
    /\ analyzeCall.framePaths = <<>>
    /\ analyzeCall.result = VisualSummary(<<>>)
    /\ analyzeCall.visionCalls = 0

\* the user and assistant messages of a history
CountedMessages(h) ==
    Len(SelectSeq(h, LAMBDA role : role \in {"user", "assistant"}))

\* C26: whenever no call for a session is in flight, the session's
\* messageCount equals the number of user and assistant messages stored in
\* its history.
C26_MessageCountMatchesHistory ==
    \A s \in DOMAIN sessions \cap DOMAIN chatHistory :
        Reserved(s) = 0
        => sessions[s].messageCount = CountedMessages(chatHistory[s])

\* C27: once a session has been ended (and no processMessage that was sent
\* before is still awaiting its completion) it never becomes active again and
\* its stored history never grows, whatever is called afterwards.
C27_EndedSessionIsFrozen ==
    [][\A s \in DOMAIN sessions \cap DOMAIN sessions' :
        (~sessions[s].isActive
            /\ [op |-> "processMessage", sid |-> s] \notin pendingChat)
        => /\ ~sessions'[s].isActive
           /\ (s \in DOMAIN chatHistory /\ s \in DOMAIN chatHistory')
                => Len(chatHistory'[s]) <= Len(chatHistory[s])]_vars

\* C29: the session Map and the history Map always have the same key set,
\* and a session leaves the Maps only when its last recorded activity is more
\* than 24 hours old.
C29_MapsShareKeys ==
    /\ [](DOMAIN sessions = DOMAIN chatHistory)
    /\ [][\A s \in DOMAIN sessions \ DOMAIN sessions' :
            now - sessions[s].lastActivity > maxAge]_vars

C29_Witness ==
    /\ usedIds = SessionIds
    /\ Cardinality(DOMAIN sessions) = 1
    /\ DOMAIN chatHistory = DOMAIN sessions
    /\ \A s \in DOMAIN sessions : /\ now - sessions[s].lastActivity = maxAge
                                    /\ Len(chatHistory[s]) > 1

\* C28: once an upload handler has answered a request whose file was accepted
\* and every deletion it scheduled has run (none refused by the operating
\* system), the uploaded file is gone: on success, on a validation rejection
\* and on a processing error alike.
C28_UploadDeletedOnEveryExit ==
    (doc.pc = "responded" /\ doc.env.hasFile /\ docCleanup = {}
        /\ ~doc.unlinkFailed)
    => UploadPath \notin uploadsDir

\* entries sorted newest first
NewestFirst(h) == \A i \in 1..(Len(h) - 1) : h[i].id > h[i+1].id

\* C30: the download history never holds more than the cap, is ordered
\* newest first and holds exactly the most recent entries; a query returns at
\* most limit entries (none for a limit below 1), all of the requested type,
\* in that same order.
C30_HistoryBoundedNewestFirst ==
    /\ Len(downloadHistory) <= historyCap
    /\ NewestFirst(downloadHistory)
    /\ \A i \in 1..Len(downloadHistory) : downloadHistory[i].id = added - i + 1
    /\ Len(downloadHistory) = IF added < historyCap THEN added ELSE historyCap
    /\ lastQuery # None
        => /\ Len(lastQuery.downloads)
                <= (IF lastQuery.limit < 0 THEN 0 ELSE lastQuery.limit)
           /\ lastQuery.type # NoType
                => \A i \in 1..Len(lastQuery.downloads) :
                        lastQuery.downloads[i].type = lastQuery.type
           /\ NewestFirst(lastQuery.downloads)

\* every resolution made so far: <<run, position in the run>>
Resolutions == { <<r, k>> : r \in Runs, k \in 1..2 } \cap
               { x \in Runs \X (1..2) : x[2] <= Len(run[x[1]].ids) }

\* C11: two runs that execute concurrently, also for the same URL, use
\* disjoint sets of temp file paths (audio, raw video, frames).
C11_RunPathsDisjoint ==
    \A r \in Runs : \A q \in Runs \ {r} : run[r].paths \cap run[q].paths = {}

C11_Witness ==
    /\ \A r \in Runs : run[r].pc = "done"
    /\ \A r \in Runs : \A q \in Runs : run[r].url = run[q].url
    /\ \A r \in Runs : Cardinality(run[r].paths) = 2 + frameCount

\* C12: resolving a URL that carries a parseable ID twice yields the same
\* platform and the same ID, within a run and across runs.
C12_ResolutionIdempotent ==
    \A x \in Resolutions : \A y \in Resolutions :
        (run[x[1]].url = run[y[1]].url /\ run[x[1]].url.carries # <<>>)
        => run[x[1]].ids[x[2]] = run[y[1]].ids[y[2]]

\* C13: extractVideoId returns an ID for every URL and never raises; when the
\* URL carries no token the ID is a generated one, and no two generated IDs
\* are equal.
C13_ResolutionNeverFails ==
    /\ \A x \in Resolutions :
        LET id == run[x[1]].ids[x[2]]
        IN  /\ id.kind \in {"token", "uuid"}
            /\ id.kind = "token" => Len(id.chars) > 0
            /\ run[x[1]].url.carries = <<>> => id.kind = "uuid"
            /\ id.kind = "uuid" => id.n \in 1..uuids
    /\ \A x \in Resolutions : \A y \in Resolutions \ {x} :
        run[x[1]].ids[x[2]].kind = "uuid"
            => run[x[1]].ids[x[2]] # run[y[1]].ids[y[2]]

C13_Witness ==
    /\ \E r \in Runs : /\ run[r].url.carries = <<>>
                       /\ PlatformOf(run[r].url.s) = "other"
                       /\ Len(run[r].ids) = 1
                       /\ run[r].ids[1].kind = "uuid"
    /\ \E r \in Runs : /\ PlatformOf(run[r].url.s) = "youtube"
                       /\ Len(run[r].ids) = 2
                       /\ run[r].ids[2].kind = "uuid"

\* C19: for a URL that carries an 11-character YouTube token in a known form,
\* or an Instagram /p/<token> segment, extractVideoId returns that token.
C19_TokenExtracted ==
    \A x \in Resolutions :
        run[x[1]].url.carries # <<>>
        => run[x[1]].ids[x[2]] = TokenId(run[x[1]].url.carries)

====
